---- MODULE Spec2Model ----
(***************************************************************************)
(* A model of app.py, the IP reverser: get_client_ip, reverse_ip and the   *)
(* three Flask routes (handle_request, health_check, catch_all).           *)
(*                                                                         *)
(* A Python str is a sequence of one-character strings; a Python value is  *)
(* a record [type, value] so that None and a str can be compared.          *)
(***************************************************************************)
EXTENDS Naturals, Sequences, FiniteSets

VARIABLES
    request,     \* the request being served (flask.request), or NoRequest
    response,    \* what the framework sends back, or NoResponse
    log,         \* the lines given to logger while serving the request
    ip_address,  \* the argument of a direct call of reverse_ip
    result       \* the values returned by the direct calls, oldest first

vars == <<request, response, log, ip_address, result>>

----------------------------------------------------------------------------
(* Bounds of the model. *)

\* Longest string handed to reverse_ip directly ("1.a..1" has four segments).
MaxIpLen == 7

----------------------------------------------------------------------------
(* Python values and the str methods the program uses. *)

None == [type |-> "NoneType", value |-> <<>>]

PyStr(s) == [type |-> "str", value |-> s]

\* The truth value of `if ip:`: None and "" are false.
Truthy(v) == v.type = "str" /\ v.value # <<>>

\* What an f-string puts for {v}: str(None) is "None".
Format(v) == IF v.type = "NoneType" THEN <<"N", "o", "n", "e">> ELSE v.value

\* `c in s` for a one-character c.
Contains(s, c) == \E i \in 1..Len(s) : s[i] = c

\* s.split(sep) for a one-character sep: always at least one segment.
RECURSIVE Split(_, _)
Split(s, sep) ==
    IF ~Contains(s, sep) THEN <<s>>
    ELSE LET i == CHOOSE k \in 1..Len(s) :
                      s[k] = sep /\ \A j \in 1..(k - 1) : s[j] # sep
         IN  <<SubSeq(s, 1, i - 1)>> \o Split(SubSeq(s, i + 1, Len(s)), sep)

Join_nosep(sep, segments) ==
    IF Len(segments) = 0 THEN <<>>
    ELSE LET RECURSIVE Cat(_)
             Cat(i) == IF i > Len(segments) THEN <<>>
                       ELSE segments[i] \o Cat(i + 1)
         IN  Cat(1)

\* sep.join(segments)
RECURSIVE Join(_, _)
Join(sep, segments) ==
    IF Len(segments) = 0 THEN <<>>
    ELSE IF Len(segments) = 1 THEN segments[1]
    ELSE segments[1] \o <<sep>> \o Join(sep, Tail(segments))

\* s.strip(): leading and trailing whitespace removed.
Strip(s) ==
    IF \A i \in 1..Len(s) : s[i] = " " THEN <<>>
    ELSE LET a == CHOOSE k \in 1..Len(s) :
                      s[k] # " " /\ \A j \in 1..(k - 1) : s[j] = " "
             b == CHOOSE k \in 1..Len(s) :
                      s[k] # " " /\ \A j \in (k + 1)..Len(s) : s[j] = " "
         IN  SubSeq(s, a, b)

Reversed_keep(segments) == segments

\* segments[::-1]
Reversed(segments) ==
    [i \in 1..Len(segments) |-> segments[Len(segments) + 1 - i]]

----------------------------------------------------------------------------
(* Logging: logger.info / logger.error append one line. *)

LogLine(level, fmt, args) == [level |-> level, fmt |-> fmt, args |-> args]

----------------------------------------------------------------------------
(* reverse_ip *)

InvalidIpFormat ==
    <<"I", "n", "v", "a", "l", "i", "d", " ", "I", "P", " ",
      "f", "o", "r", "m", "a", "t", ":", " ">>

ErrorProcessingIp ==
    <<"E", "r", "r", "o", "r", " ", "p", "r", "o", "c", "e", "s", "s", "i",
      "n", "g", " ", "I", "P", ":", " ">>

\* The message of the AttributeError that None.split raises.
NoSplitAttribute == "'NoneType' object has no attribute 'split'"

reverse_ip_str_first(v) ==
    LET segments == Split(Format(v), ".")
    IN  IF Len(segments) = 4
        THEN [ret |-> PyStr(Join(".", Reversed(segments))), log |-> <<>>]
        ELSE [ret |-> PyStr(InvalidIpFormat \o Format(v)), log |-> <<>>]

reverse_ip_at_least_four(v) ==
    IF v.type # "str"
    THEN [ret |-> PyStr(ErrorProcessingIp \o Format(v)), log |-> <<>>]
    ELSE LET segments == Split(v.value, ".")
         IN  IF Len(segments) >= 4
             THEN [ret |-> PyStr(Join(".", Reversed(segments))), log |-> <<>>]
             ELSE [ret |-> PyStr(InvalidIpFormat \o v.value), log |-> <<>>]

\* Returns [ret, log]: the value returned and the lines logged.  A value
\* without a split method (None) raises inside the try and is answered by
\* the except branch.
reverse_ip(v) ==
    IF v.type # "str"
    THEN [ret |-> PyStr(ErrorProcessingIp \o Format(v)),
          log |-> <<LogLine("ERROR", "Error reversing IP {ip_address}: {str(e)}",
                            [ip_address |-> Format(v),
                             e |-> NoSplitAttribute])>>]
    ELSE LET segments == Split(v.value, ".")
         IN  IF Len(segments) = 4
             THEN [ret |-> PyStr(Join(".", Reversed(segments))), log |-> <<>>]
             ELSE [ret |-> PyStr(InvalidIpFormat \o v.value), log |-> <<>>]

----------------------------------------------------------------------------
(* flask.request: method, path, headers, remote_addr. *)

\* request.headers.get(name, default); a header is present when the mapping
\* has it, with whatever value (possibly "") it was sent with.
HeadersGet(headers, name, default) ==
    IF name \in DOMAIN headers THEN PyStr(headers[name]) ELSE default

----------------------------------------------------------------------------
(* get_client_ip *)

headers_to_check_real_ip_first ==
    <<"X-Real-IP", "X-Forwarded-For", "X-Forwarded", "X-Cluster-Client-IP",
      "CF-Connecting-IP">>

headers_to_check ==
    <<"X-Forwarded-For", "X-Real-IP", "X-Forwarded", "X-Cluster-Client-IP",
      "CF-Connecting-IP">>

FirstOfList_unstripped(ip) ==
    IF Contains(ip, ",") THEN Split(ip, ",")[1] ELSE ip

\* if ',' in ip: ip = ip.split(',')[0].strip()
FirstOfList(ip) ==
    IF Contains(ip, ",") THEN Strip(Split(ip, ",")[1]) ELSE ip

\* The for loop from its i-th header on, then the fallback to remote_addr.
\* Returns [ret, log].
RECURSIVE get_client_ip_from(_, _)
get_client_ip_from(req, i) ==
    IF i > Len(headers_to_check)
    THEN [ret |-> req.remote_addr,
          log |-> <<LogLine("INFO", "Using remote_addr: {ip}",
                            [ip |-> Format(req.remote_addr)])>>]
    ELSE LET header == headers_to_check[i]
             ip == HeadersGet(req.headers, header, None)
         IN  IF Truthy(ip)
             THEN [ret |-> PyStr(FirstOfList(ip.value)),
                   log |-> <<LogLine("INFO", "Found IP in {header}: {ip}",
                                     [header |-> header,
                                      ip |-> FirstOfList(ip.value)])>>]
             ELSE get_client_ip_from(req, i + 1)

get_client_ip(req) == get_client_ip_from(req, 1)

----------------------------------------------------------------------------
(* The routes: @app.route(rule, methods=[...]). *)

handle_request_methods == {"GET", "POST", "PUT", "DELETE", "PATCH"}

health_check_methods == {"GET"}

catch_all_methods_no_patch == {"GET", "POST", "PUT", "DELETE"}

catch_all_methods == {"GET", "POST", "PUT", "DELETE", "PATCH"}

RootRule == <<"/">>

HealthRule == <<"/", "h", "e", "a", "l", "t", "h">>

\* '/<path:path>' matches a path with something after its leading slash.
MatchesCatchAll(path) == Len(path) > 1 /\ path[1] = "/" /\ path[2] # "/"

\* The value the rule '/<path:path>' binds to the view's argument `path`.
PathArgument(path) == Tail(path)

\* The view the URL map dispatches to.  A rule whose path matches but whose
\* methods do not is passed over; when no rule is left the framework
\* answers 405 Method Not Allowed itself.
Route(req) ==
    IF req.path = RootRule /\ req.method \in handle_request_methods
    THEN "handle_request"
    ELSE IF req.path = HealthRule /\ req.method \in health_check_methods
    THEN "health_check"
    ELSE IF MatchesCatchAll(req.path) /\ req.method \in catch_all_methods
    THEN "catch_all"
    ELSE "method_not_allowed"

Unknown == <<"U", "n", "k", "n", "o", "w", "n">>

Healthy == [status |-> "healthy", service |-> "ip-reverse-app"]

NoRequest ==
    [method |-> "", path |-> <<>>, headers |-> [h \in {} |-> <<>>],
     remote_addr |-> None]

NoResponse == [status |-> 0, body |-> <<>>]

Pending == response = NoResponse

\* @app.route('/') handle_request
handle_request ==
    /\ Pending
    /\ Route(request) = "handle_request"
    /\ LET client_ip == get_client_ip(request)
           reversed_ip == reverse_ip(client_ip.ret)
       IN  /\ response' =
                 [status |-> 200,
                  body |-> [original_ip |-> client_ip.ret,
                            reversed_ip |-> reversed_ip.ret,
                            method |-> request.method,
                            path |-> request.path,
                            user_agent |->
                                HeadersGet(request.headers, "User-Agent",
                                           PyStr(Unknown))]]
           /\ log' = log \o client_ip.log \o reversed_ip.log \o
                     <<LogLine("INFO",
                               "Request from {client_ip} -> Reversed: {reversed_ip}",
                               [client_ip |-> Format(client_ip.ret),
                                reversed_ip |-> Format(reversed_ip.ret)])>>
    /\ UNCHANGED <<request, ip_address, result>>

health_check_resolving ==
    /\ Pending
    /\ Route(request) = "health_check"
    /\ response' = [status |-> 200, body |-> Healthy]
    /\ log' = log \o get_client_ip(request).log
    /\ UNCHANGED <<request, ip_address, result>>

\* @app.route('/health') health_check
health_check ==
    /\ Pending
    /\ Route(request) = "health_check"
    /\ response' = [status |-> 200, body |-> Healthy]
    /\ UNCHANGED <<request, log, ip_address, result>>

catch_all_bare_path ==
    /\ Pending
    /\ Route(request) = "catch_all"
    /\ LET path == PathArgument(request.path)
           client_ip == get_client_ip(request)
           reversed_ip == reverse_ip(client_ip.ret)
       IN  /\ response' =
                 [status |-> 200,
                  body |-> [original_ip |-> client_ip.ret,
                            reversed_ip |-> reversed_ip.ret,
                            method |-> request.method,
                            path |-> path,
                            user_agent |->
                                HeadersGet(request.headers, "User-Agent",
                                           PyStr(Unknown))]]
           /\ log' = log \o client_ip.log \o reversed_ip.log
    /\ UNCHANGED <<request, ip_address, result>>

\* @app.route('/<path:path>') catch_all
catch_all ==
    /\ Pending
    /\ Route(request) = "catch_all"
    /\ LET path == PathArgument(request.path)
           client_ip == get_client_ip(request)
           reversed_ip == reverse_ip(client_ip.ret)
       IN  /\ response' =
                 [status |-> 200,
                  body |-> [original_ip |-> client_ip.ret,
                            reversed_ip |-> reversed_ip.ret,
                            method |-> request.method,
                            path |-> <<"/">> \o path,
                            user_agent |->
                                HeadersGet(request.headers, "User-Agent",
                                           PyStr(Unknown))]]
           /\ log' = log \o client_ip.log \o reversed_ip.log \o
                     <<LogLine("INFO",
                               "Request to /{path} from {client_ip} -> Reversed: {reversed_ip}",
                               [path |-> path,
                                client_ip |-> Format(client_ip.ret),
                                reversed_ip |-> Format(reversed_ip.ret)])>>
    /\ UNCHANGED <<request, ip_address, result>>

MethodNotAllowed == [status |-> 405, body |-> [error |-> "Method Not Allowed"]]

\* No rule accepts the request's method: the framework's 405.
method_not_allowed ==
    /\ Pending
    /\ Route(request) = "method_not_allowed"
    /\ response' = MethodNotAllowed
    /\ UNCHANGED <<request, log, ip_address, result>>

----------------------------------------------------------------------------
(* The requests served. *)

Methods == {"GET", "POST", "PUT", "DELETE", "PATCH", "TRACE"}

Paths ==
    {<<"/">>,
     <<"/", "h", "e", "a", "l", "t", "h">>,
     <<"/", "f", "o", "o">>,
     <<"/", "f", "o", "o", "/", "b", "a", "r">>}

ProxyHeaders == {headers_to_check[i] : i \in 1..Len(headers_to_check)}

\* Proxy header values of the served requests: empty, comma-only, an
\* address.
ProxyValues ==
    {<<>>,
     <<",">>,
     <<"1", ".", "2", ".", "3", ".", "4">>}

UserAgents == {<<>>, <<"c", "u", "r", "l">>}

PeerAddresses == {None, PyStr(<<"5", ".", "6", ".", "7", ".", "8">>)}

\* Every mapping from some of `names` to `values`.
HeaderMaps(names, values) ==
    UNION {[present -> values] : present \in SUBSET names}

\* The two mappings merged (their domains are disjoint).
Merge(f, g) ==
    [h \in (DOMAIN f) \cup (DOMAIN g) |-> IF h \in DOMAIN f THEN f[h] ELSE g[h]]

Requests ==
    {[method |-> m, path |-> p, headers |-> Merge(ph, ua), remote_addr |-> a] :
        m \in Methods, p \in Paths,
        ph \in HeaderMaps(ProxyHeaders, ProxyValues),
        ua \in HeaderMaps({"User-Agent"}, UserAgents),
        a \in PeerAddresses}

NoArgument == <<"-">>

Init ==
    /\ request \in Requests
    /\ response = NoResponse
    /\ log = <<>>
    /\ ip_address = NoArgument
    /\ result = <<>>

Next ==
    \/ handle_request
    \/ health_check
    \/ catch_all
    \/ method_not_allowed

Spec == Init /\ [][Next]_vars

----------------------------------------------------------------------------
(* Direct calls of get_client_ip on requests with forwarding chains. *)

\* Header values as an HTTP parser delivers them (no whitespace at either
\* end): empty, single addresses, comma-only, chains with whitespace.
ChainValues ==
    {<<>>,
     <<"9">>,
     <<",">>,
     <<"1", " ", ",", "2">>,
     <<"3", ",", " ", "4">>}

ResolveRequests ==
    {[method |-> "GET", path |-> RootRule, headers |-> ph, remote_addr |-> a] :
        ph \in HeaderMaps(ProxyHeaders, ChainValues), a \in PeerAddresses}

InitResolve ==
    /\ request \in ResolveRequests
    /\ response = NoResponse
    /\ log = <<>>
    /\ ip_address = NoArgument
    /\ result = <<>>

\* result = get_client_ip()
call_get_client_ip ==
    /\ result = <<>>
    /\ result' = <<get_client_ip(request).ret>>
    /\ log' = log \o get_client_ip(request).log
    /\ UNCHANGED <<request, response, ip_address>>

NextResolve == call_get_client_ip

SpecResolve == InitResolve /\ [][NextResolve]_vars

----------------------------------------------------------------------------
(* Direct calls of reverse_ip on every short string. *)

IpAlphabet == {"1", "a", "."}

RECURSIVE StringsOfLen(_, _)
StringsOfLen(alphabet, n) ==
    IF n = 0 THEN {<<>>}
    ELSE {<<c>> \o s : c \in alphabet, s \in StringsOfLen(alphabet, n - 1)}

IpInputs == UNION {StringsOfLen(IpAlphabet, n) : n \in 0..MaxIpLen}

InitReverse ==
    /\ request = NoRequest
    /\ response = NoResponse
    /\ log = <<>>
    /\ ip_address \in IpInputs
    /\ result = <<>>

\* result = reverse_ip(ip_address)
call_reverse_ip ==
    /\ result = <<>>
    /\ result' = <<reverse_ip(PyStr(ip_address)).ret>>
    /\ log' = log \o reverse_ip(PyStr(ip_address)).log
    /\ UNCHANGED <<request, response, ip_address>>

\* result = reverse_ip(reverse_ip(ip_address))
call_reverse_ip_again ==
    /\ Len(result) = 1
    /\ result' = Append(result, reverse_ip(result[1]).ret)
    /\ log' = log \o reverse_ip(result[1]).log
    /\ UNCHANGED <<request, response, ip_address>>

NextReverse == call_reverse_ip \/ call_reverse_ip_again

SpecReverse == InitReverse /\ [][NextReverse]_vars

----------------------------------------------------------------------------
(* Properties of get_client_ip, checked under SpecResolve. *)

\* The order the specification gives for the proxy headers.
PriorityOrder ==
    <<"X-Forwarded-For", "X-Real-IP", "X-Forwarded", "X-Cluster-Client-IP",
      "CF-Connecting-IP">>

\* Header h was sent with a non-empty value.
Carries(req, h) == h \in DOMAIN req.headers /\ req.headers[h] # <<>>

SomeCarried(req) == \E i \in 1..Len(PriorityOrder) : Carries(req, PriorityOrder[i])

\* The earliest header of the order that was sent with a non-empty value.
FirstCarried(req) ==
    LET i == CHOOSE k \in 1..Len(PriorityOrder) :
                 /\ Carries(req, PriorityOrder[k])
                 /\ \A j \in 1..(k - 1) : ~Carries(req, PriorityOrder[j])
    IN  PriorityOrder[i]

\* t occurs in s as a contiguous piece.
OccursIn(t, s) ==
    \E a \in 0..(Len(s) - Len(t)) : t = SubSeq(s, a + 1, a + Len(t))

\* t is p without the spaces at its two ends.
IsTrimOf(t, p) ==
    /\ t = <<>> \/ (t[1] # " " /\ t[Len(t)] # " ")
    /\ \E a \in 0..(Len(p) - Len(t)) :
           /\ t = SubSeq(p, a + 1, a + Len(t))
           /\ \A j \in 1..a : p[j] = " "
           /\ \A j \in (a + Len(t) + 1)..Len(p) : p[j] = " "

\* The part of s before its first comma.
BeforeFirstComma(s) ==
    LET k == CHOOSE i \in 1..Len(s) :
                 s[i] = "," /\ \A j \in 1..(i - 1) : s[j] # ","
    IN  SubSeq(s, 1, k - 1)

\* C1: get_client_ip takes its result from the first header, in the order
\* X-Forwarded-For, X-Real-IP, X-Forwarded, X-Cluster-Client-IP,
\* CF-Connecting-IP, that is present with a non-empty value (it names that
\* header in its log line and returns a piece of that header's value),
\* whatever the later headers carry; when no header is present with a
\* non-empty value it returns request.remote_addr unchanged.
C1_HeaderPriority ==
    result # <<>> =>
        IF SomeCarried(request)
        THEN /\ Len(log) = 1
             /\ log[1].fmt = "Found IP in {header}: {ip}"
             /\ log[1].args.header = FirstCarried(request)
             /\ result[1].type = "str"
             /\ OccursIn(result[1].value, request.headers[FirstCarried(request)])
             /\ log[1].args.ip = result[1].value
        ELSE /\ result[1] = request.remote_addr
             /\ Len(log) = 1
             /\ log[1].fmt = "Using remote_addr: {ip}"

\* Witness of C1: X-Forwarded-For was sent empty, X-Real-IP and
\* CF-Connecting-IP carry different addresses, and the call has returned.
C1_Witness ==
    /\ result # <<>>
    /\ "X-Forwarded-For" \in DOMAIN request.headers
    /\ request.headers["X-Forwarded-For"] = <<>>
    /\ Carries(request, "X-Real-IP")
    /\ request.headers["X-Real-IP"] = <<"3", ",", " ", "4">>
    /\ Carries(request, "CF-Connecting-IP")
    /\ request.headers["CF-Connecting-IP"] = <<"9">>
    /\ result[1] = PyStr(<<"3">>)

\* C5 (as claimed): whenever the request has a peer address, the value
\* get_client_ip returns is a non-empty string.
C5_NonEmptyWithPeer ==
    (result # <<>> /\ request.remote_addr # None) =>
        (result[1].type = "str" /\ result[1].value # <<>>)

\* C6: when the selected header's value contains a comma the result is the
\* part before the first comma without the whitespace at its ends; a
\* selected value without a comma is returned as received.
C6_FirstOfChain ==
    (result # <<>> /\ SomeCarried(request)) =>
        LET received == request.headers[FirstCarried(request)]
        IN  /\ result[1].type = "str"
            /\ IF \E i \in 1..Len(received) : received[i] = ","
               THEN IsTrimOf(result[1].value, BeforeFirstComma(received))
               ELSE result[1].value = received

\* Witness of C6: the selected value is "1 ,2", whose first element "1 "
\* has whitespace to trim, and the call has returned "1".
C6_Witness ==
    /\ result # <<>>
    /\ SomeCarried(request)
    /\ request.headers[FirstCarried(request)] = <<"1", " ", ",", "2">>
    /\ result[1] = PyStr(<<"1">>)

----------------------------------------------------------------------------
(* Properties of reverse_ip, checked under SpecReverse. *)

DotPositions(s) == {i \in 1..Len(s) : s[i] = "."}

\* s has exactly four dot-separated segments: exactly three dots.
FourSegments(s) == Cardinality(DotPositions(s)) = 3

\* C7: for a string that is not four dot-separated segments, reverse_ip
\* returns "Invalid IP format: " followed by the string, and no exception
\* is raised (the except branch would log an error line).
C7_InvalidFormat ==
    (Len(result) >= 1 /\ ~FourSegments(ip_address)) =>
        /\ result[1] = PyStr(InvalidIpFormat \o ip_address)
        /\ log = <<>>

\* Witness of C7: a string of more than four segments has been answered.
C7_Witness ==
    /\ Len(result) = 1
    /\ Cardinality(DotPositions(ip_address)) > 3
    /\ result[1].value = InvalidIpFormat \o ip_address

\* C8: for a.b.c.d with arbitrary (possibly empty, non-numeric) segments,
\* reverse_ip returns d.c.b.a.
C8_ReversesFourSegments ==
    (Len(result) >= 1 /\ FourSegments(ip_address)) =>
        \E p1, p2, p3 \in DotPositions(ip_address) :
            /\ p1 < p2
            /\ p2 < p3
            /\ LET a == SubSeq(ip_address, 1, p1 - 1)
                   b == SubSeq(ip_address, p1 + 1, p2 - 1)
                   c == SubSeq(ip_address, p2 + 1, p3 - 1)
                   d == SubSeq(ip_address, p3 + 1, Len(ip_address))
               IN  result[1] =
                       PyStr(d \o <<".">> \o c \o <<".">> \o b \o <<".">> \o a)

\* Witness of C8: "1.a..1a" (a non-numeric and an empty segment) has been
\* reversed to "1a..a.1".
C8_Witness ==
    /\ Len(result) = 1
    /\ ip_address = <<"1", ".", "a", ".", ".", "1", "a">>
    /\ result[1] = PyStr(<<"1", "a", ".", ".", "a", ".", "1">>)

\* C10: for a string of exactly four dot-separated segments,
\* reverse_ip(reverse_ip(x)) = x.
C10_RoundTrip ==
    (Len(result) = 2 /\ FourSegments(ip_address)) =>
        result[2] = PyStr(ip_address)

\* Witness of C10: a four-segment string that its reversal changes has been
\* reversed twice.
C10_Witness ==
    /\ Len(result) = 2
    /\ FourSegments(ip_address)
    /\ result[1] # PyStr(ip_address)
    /\ result[2] = PyStr(ip_address)

----------------------------------------------------------------------------
(* Properties of the routes, checked under Spec. *)

Answered == response # NoResponse

ListedMethods == {"GET", "POST", "PUT", "DELETE", "PATCH"}

IsRoot(req) == req.path = <<"/">>

IsHealth(req) == req.path = <<"/", "h", "e", "a", "l", "t", "h">>

\* The request is served by handle_request or by catch_all.
ServedByReverser(req) ==
    /\ req.method \in ListedMethods
    /\ ~(IsHealth(req) /\ req.method = "GET")

OneHeader(name, value) == [h \in {name} |-> value]

NoHeaders == [h \in {} |-> <<>>]

\* C2: a request served by the root or the catch-all handler is answered
\* with status 200 and a record whose original_ip is what get_client_ip
\* resolved, reversed_ip is reverse_ip of that value, method is the request's
\* method, path is "/" for the root and "/" followed by the wildcard match
\* otherwise, and user_agent is the User-Agent header or "Unknown" when the
\* header is absent; the two end-to-end examples of the specification give
\* exactly the records stated.
C2_ResponseRecord ==
    (Answered /\ ServedByReverser(request)) =>
        /\ response.status = 200
        /\ DOMAIN response.body =
               {"original_ip", "reversed_ip", "method", "path", "user_agent"}
        /\ response.body.original_ip = get_client_ip(request).ret
        /\ response.body.reversed_ip = reverse_ip(response.body.original_ip).ret
        /\ response.body.method = request.method
        /\ IF IsRoot(request)
           THEN response.body.path = <<"/">>
           ELSE response.body.path = <<"/">> \o SubSeq(request.path, 2, Len(request.path))
        /\ IF "User-Agent" \in DOMAIN request.headers
           THEN response.body.user_agent = PyStr(request.headers["User-Agent"])
           ELSE response.body.user_agent = PyStr(<<"U", "n", "k", "n", "o", "w", "n">>)
        /\ (/\ request.method = "GET"
            /\ IsRoot(request)
            /\ request.headers =
                   OneHeader("X-Forwarded-For", <<"1", ".", "2", ".", "3", ".", "4">>))
           => response.body =
                  [original_ip |-> PyStr(<<"1", ".", "2", ".", "3", ".", "4">>),
                   reversed_ip |-> PyStr(<<"4", ".", "3", ".", "2", ".", "1">>),
                   method |-> "GET",
                   path |-> <<"/">>,
                   user_agent |-> PyStr(<<"U", "n", "k", "n", "o", "w", "n">>)]
        /\ (/\ request.method = "POST"
            /\ request.path = <<"/", "f", "o", "o", "/", "b", "a", "r">>
            /\ request.headers = NoHeaders
            /\ request.remote_addr = PyStr(<<"5", ".", "6", ".", "7", ".", "8">>))
           => /\ response.body.path = <<"/", "f", "o", "o", "/", "b", "a", "r">>
              /\ response.body.original_ip = PyStr(<<"5", ".", "6", ".", "7", ".", "8">>)
              /\ response.body.reversed_ip = PyStr(<<"8", ".", "7", ".", "6", ".", "5">>)

\* Witness of C2: POST /foo/bar from peer 5.6.7.8 with a User-Agent and no
\* proxy header has been answered by the catch-all handler.
C2_Witness ==
    /\ Answered
    /\ request.method = "POST"
    /\ request.path = <<"/", "f", "o", "o", "/", "b", "a", "r">>
    /\ request.headers = OneHeader("User-Agent", <<"c", "u", "r", "l">>)
    /\ request.remote_addr = PyStr(<<"5", ".", "6", ".", "7", ".", "8">>)
    /\ response.body.path = request.path
    /\ response.body.user_agent = PyStr(<<"c", "u", "r", "l">>)

\* No proxy header carries a value and there is no peer address.
NoClientIp(req) == ~SomeCarried(req) /\ req.remote_addr = None

InvalidFormatNone ==
    <<"I", "n", "v", "a", "l", "i", "d", " ", "I", "P", " ",
      "f", "o", "r", "m", "a", "t", ":", " ", "N", "o", "n", "e">>

ErrorProcessingNone ==
    <<"E", "r", "r", "o", "r", " ", "p", "r", "o", "c", "e", "s", "s", "i",
      "n", "g", " ", "I", "P", ":", " ", "N", "o", "n", "e">>

\* C3 (as claimed): with no header matching and no peer address,
\* get_client_ip returns None and reverse_ip of it is the malformed-format
\* message "Invalid IP format: None".
C3_NoneIsInvalidFormat ==
    (Answered /\ ServedByReverser(request) /\ NoClientIp(request)) =>
        /\ response.body.original_ip = None
        /\ response.body.reversed_ip = PyStr(InvalidFormatNone)

\* C3 (amended): with no header matching and no peer address,
\* get_client_ip returns None; None has no split, so reverse_ip takes its
\* except branch, logs the error and returns "Error processing IP: None".
C3_NoneIsProcessingError ==
    (Answered /\ ServedByReverser(request) /\ NoClientIp(request)) =>
        /\ response.body.original_ip = None
        /\ response.body.reversed_ip = PyStr(ErrorProcessingNone)
        /\ \E i \in 1..Len(log) : log[i].level = "ERROR"

\* Witness of C3: a request whose only proxy header was sent empty, with no
\* peer address, has been answered by the root handler.
C3_Witness ==
    /\ Answered
    /\ IsRoot(request)
    /\ request.method = "PUT"
    /\ request.headers = OneHeader("X-Real-IP", <<>>)
    /\ request.remote_addr = None
    /\ response.body.original_ip = None

\* The body says what was found: the health object, or a record whose
\* reversed_ip is a non-empty string.
Descriptive(body) ==
    \/ body = [status |-> "healthy", service |-> "ip-reverse-app"]
    \/ /\ "reversed_ip" \in DOMAIN body
       /\ body.reversed_ip.type = "str"
       /\ body.reversed_ip.value # <<>>

C9_HealthFixed ==
    (Answered /\ request.method = "GET" /\ IsHealth(request)) =>
        /\ response =
               [status |-> 200,
                body |-> [status |-> "healthy", service |-> "ip-reverse-app"]]
        /\ log = <<>>

\* Witness of C9: GET /health carrying proxy headers and a User-Agent, with
\* no peer address, has been answered.
C9_Witness ==
    /\ Answered
    /\ request.method = "GET"
    /\ IsHealth(request)
    /\ Carries(request, "X-Forwarded-For")
    /\ Carries(request, "User-Agent")
    /\ request.remote_addr = None
    /\ response.status = 200

====
